---- MODULE Spec2Model ----
\* Model of pyetrade.market.ETradeMarket (src/pyetrade/market.py).
\*
\* A Python str is modelled as a sequence of chunks (TLA+ strings); string
\* concatenation, "%" formatting and str.join are concatenation (\o) of chunk
\* sequences.  Every other Python value is a record tagged with its type.
\* The transport (OAuth1Session.get / raise_for_status) and the vendor are the
\* environment: each response is chosen nondeterministically when it arrives.
EXTENDS Integers, Sequences, FiniteSets, TLC

VARIABLES base_url, pc, call, requests, received, warnings, outcome,
          expiration_dates, idx, rtn

vars == <<base_url, pc, call, requests, received, warnings, outcome,
          expiration_dates, idx, rtn>>

----------------------------------------------------------------------------
\* Bounds of the model

\* longest symbols list handed to get_quote
MaxSymbolsLen == 27
\* most ExpirationDate elements in one optionexpiredate response
MaxDates == 3
\* most OptionPair elements in one optionchains response
MaxPairs == 3

----------------------------------------------------------------------------
\* Python values

PyNone == [ty |-> "NoneType"]
PyBool(b) == [ty |-> "bool", b |-> b]
PyInt(n) == [ty |-> "int", n |-> n]
PyStr(s) == [ty |-> "str", s |-> s]

\* Python's ==, as used by the "in" operator: bool is an int (True == 1)
PyEq(a, b) ==
    \/ a = b
    \/ a.ty = "bool" /\ b.ty = "int" /\ b.n = (IF a.b THEN 1 ELSE 0)
    \/ a.ty = "int" /\ b.ty = "bool" /\ a.n = (IF b.b THEN 1 ELSE 0)

\* x in (t1, ..., tn)
PyIn(x, tup) == \E i \in 1..Len(tup) : PyEq(x, tup[i])

\* bool(x), as "if x:" evaluates it
PyTruthy(x) ==
    CASE x.ty = "NoneType" -> FALSE
      [] x.ty = "bool" -> x.b
      [] x.ty = "int" -> x.n # 0
      [] OTHER -> TRUE

DigitStr == <<"0", "1", "2", "3", "4", "5", "6", "7", "8", "9">>

\* "%02d" % n and "%04d" % n, for the n the model uses (0 <= n < 100, 10000)
Pad2(n) == <<DigitStr[(n \div 10) + 1], DigitStr[(n % 10) + 1]>>
Pad4(n) == Pad2(n \div 100) \o Pad2(n % 100)

\* "%d" % n for n >= 0
RECURSIVE IntStr(_)
IntStr(n) == IF n < 10 THEN <<DigitStr[n + 1]>> ELSE IntStr(n \div 10) \o <<DigitStr[(n % 10) + 1]>>

\* int(text) for a text of decimal digits
DigitVal(c) == CHOOSE d \in 0..9 : DigitStr[d + 1] = c
RECURSIVE ParseInt(_)
ParseInt(text) ==
    IF Len(text) = 0 THEN 0
    ELSE 10 * ParseInt(SubSeq(text, 1, Len(text) - 1)) + DigitVal(text[Len(text)])

\* str(x)
PyStrOf(x) ==
    CASE x.ty = "bool" -> IF x.b THEN <<"True">> ELSE <<"False">>
      [] x.ty = "int" -> IntStr(x.n)
      [] x.ty = "str" -> <<x.s>>
      [] OTHER -> <<"None">>

\* str.upper()
Upper(s) ==
    CASE s = "fundamental" -> "FUNDAMENTAL"
      [] s = "intraday" -> "INTRADAY"
      [] s = "options" -> "OPTIONS"
      [] s = "week_52" -> "WEEK_52"
      [] s = "all" -> "ALL"
      [] s = "mf_detail" -> "MF_DETAIL"
      [] s = "put" -> "PUT"
      [] s = "call" -> "CALL"
      [] s = "callput" -> "CALLPUT"
      [] s = "standard" -> "STANDARD"
      [] s = "mini" -> "MINI"
      [] s = "atmn" -> "ATMN"
      [] OTHER -> s

\* str.lower()
Lower(s) ==
    CASE s = "XML" -> "xml"
      [] s = "Xml" -> "xml"
      [] s = "JSON" -> "json"
      [] s = "Json" -> "json"
      [] OTHER -> s

\* sep.join(parts): parts is a sequence of strs (chunk sequences)
RECURSIVE Join(_, _)
Join(sep, parts) ==
    IF parts = <<>> THEN <<>>
    ELSE IF Len(parts) = 1 THEN parts[1]
    ELSE parts[1] \o sep \o Join(sep, Tail(parts))

\* seq[:n]
Slice(seq, n) == SubSeq(seq, 1, IF Len(seq) < n THEN Len(seq) ELSE n)

----------------------------------------------------------------------------
\* Outcomes of a call

Pending == [kind |-> "pending"]
Raised(err) == [kind |-> "raised", error |-> err]
Returned(v) == [kind |-> "returned", value |-> v]

----------------------------------------------------------------------------
\* The transport and the response normalizers (external collaborators)

NoError == "none"

\* What the vendor sends back for a request: the body's format follows the
\* ".json" suffix of the path (XML is the vendor's default); the body may be
\* malformed; the request may fail in the transport or with an HTTP status.
ServedFormat(url) == IF \E i \in 1..Len(url) : url[i] = ".json" THEN "json" ELSE "xml"

PlainResponses(url) ==
    {[status |-> "conn_error"], [status |-> "http_error"]}
    \cup {[status |-> "ok", body |-> [fmt |-> ServedFormat(url), wellformed |-> w]] :
            w \in BOOLEAN}

\* session.get raising, or req.raise_for_status() raising
TransportError(resp) ==
    CASE resp.status = "conn_error" -> "ConnectionError"
      [] resp.status = "http_error" -> "HTTPError"
      [] OTHER -> NoError

\* xmltodict.parse(req.text) on an opaque body
XmlParse(body) ==
    IF body.fmt = "xml" /\ body.wellformed
    THEN Returned([parsed_by |-> "xmltodict", body |-> body])
    ELSE Raised("ExpatError")

\* req.json()
JsonDecode(body) ==
    IF body.fmt = "json" /\ body.wellformed
    THEN Returned([parsed_by |-> "json", body |-> body])
    ELSE Raised("JSONDecodeError")

----------------------------------------------------------------------------
\* look_up_product

LookupUrl(base, search_str, resp_format) ==
    base \o <<"lookup/">>
         \o (IF Lower(resp_format) = "xml" THEN search_str ELSE search_str \o <<".json">>)

LookupParse(resp_format, body) ==
    IF Lower(resp_format) = "xml" THEN XmlParse(body) ELSE JsonDecode(body)

----------------------------------------------------------------------------
\* get_quote

QuoteLimit == 25

DetailFlags == <<PyStr("fundamental"), PyStr("intraday"), PyStr("options"),
                 PyStr("week_52"), PyStr("all"), PyStr("mf_detail"), PyNone>>
TrueFalseNone == <<PyBool(TRUE), PyBool(FALSE), PyNone>>

\* isinstance(symbols, list or tuple): "list or tuple" evaluates to list
IsInstanceListOrTuple(symbols) == symbols.ty = "list"

\* the four assert statements, in order
QuoteAsserts(symbols, detail_flag, require_earnings_date, skip_mini_options_check) ==
    IF /\ PyIn(detail_flag, DetailFlags)
       /\ PyIn(require_earnings_date, TrueFalseNone)
       /\ PyIn(skip_mini_options_check, TrueFalseNone)
       /\ IsInstanceListOrTuple(symbols)
    THEN NoError
    ELSE "AssertionError"

\* number of LOGGER.warning calls
QuoteWarnings(symbols) == IF Len(symbols.items) > QuoteLimit THEN 1 ELSE 0

\* QuoteArgs with "if require_earnings_date is not None" for "if require_earnings_date"
QuoteArgs_FalseSerialized(detail_flag, require_earnings_date, skip_mini_options_check) ==
    (IF detail_flag # PyNone
        THEN << <<"detailflag=", Upper(detail_flag.s)>> >> ELSE <<>>)
    \o (IF require_earnings_date # PyNone
        THEN << <<"requireEarningsDate=", "true">> >> ELSE <<>>)
    \o (IF skip_mini_options_check # PyNone
        THEN << <<"skipMiniOptionsCheck=">> \o PyStrOf(skip_mini_options_check) >>
        ELSE <<>>)

QuoteArgs(detail_flag, require_earnings_date, skip_mini_options_check) ==
    (IF detail_flag # PyNone
        THEN << <<"detailflag=", Upper(detail_flag.s)>> >> ELSE <<>>)
    \o (IF PyTruthy(require_earnings_date)
        THEN << <<"requireEarningsDate=", "true">> >> ELSE <<>>)
    \o (IF skip_mini_options_check # PyNone
        THEN << <<"skipMiniOptionsCheck=">> \o PyStrOf(skip_mini_options_check) >>
        ELSE <<>>)

\* QuoteUrl with the ".json" suffix appended after the query instead of before it
QuoteUrl_SuffixAfterQuery(base, symbols, args, resp_format) ==
    base \o <<"quote/">> \o Join(<<",">>, Slice(symbols.items, QuoteLimit))
         \o (IF Len(args) # 0 THEN <<"?">> \o Join(<<"&">>, args) ELSE <<>>)
         \o (IF Lower(resp_format) = "json" THEN <<".json">> ELSE <<>>)

QuoteUrl(base, symbols, args, resp_format) ==
    base \o <<"quote/">> \o Join(<<",">>, Slice(symbols.items, QuoteLimit))
         \o (IF Lower(resp_format) = "json" THEN <<".json">> ELSE <<>>)
         \o (IF Len(args) # 0 THEN <<"?">> \o Join(<<"&">>, args) ELSE <<>>)

QuoteParse(resp_format, body) ==
    IF Lower(resp_format) = "xml" THEN XmlParse(body) ELSE JsonDecode(body)

----------------------------------------------------------------------------
\* xmltodict.parse on repeated child elements: no element leaves the key out,
\* one element becomes a mapping, two or more become a list of mappings

XmlChildren(elems) ==
    IF Len(elems) = 0 THEN [ty |-> "missing"]
    ELSE IF Len(elems) = 1 THEN [ty |-> "dict", d |-> elems[1]]
    ELSE [ty |-> "list", items |-> elems]

----------------------------------------------------------------------------
\* get_option_chains

PyDate(y, m, d) == [ty |-> "date", year |-> y, month |-> m, day |-> d]
\* a float, held in thousandths
PyFloat(milli) == [ty |-> "float", milli |-> milli]

ChainTypes == <<PyStr("put"), PyStr("call"), PyStr("callput"), PyNone>>
OptionCategories == <<PyStr("standard"), PyStr("all"), PyStr("mini"), PyNone>>
PriceTypes == <<PyStr("atmn"), PyStr("all"), PyNone>>

\* the four assert statements
ChainsAsserts(chainType, optionCategory, priceType, skipAdjusted) ==
    IF /\ PyIn(chainType, ChainTypes)
       /\ PyIn(optionCategory, OptionCategories)
       /\ PyIn(priceType, PriceTypes)
       /\ PyIn(skipAdjusted, TrueFalseNone)
    THEN NoError
    ELSE "AssertionError"

\* "%0.2f" % x
Format2f(x) ==
    LET cents == (x.milli + 5) \div 10
    IN  IntStr(cents \div 100) \o <<".">> \o Pad2(cents % 100)

\* "noOfStrikes=%d" % noOfStrikes.upper(): an int has no upper(), and "%d"
\* does not take the str that upper() returns
NoOfStrikesArg(noOfStrikes) ==
    CASE noOfStrikes.ty = "int" -> Raised("AttributeError")
      [] noOfStrikes.ty = "str" -> Raised("TypeError")
      [] OTHER -> Raised("AttributeError")

\* the args list: Raised(..) when building it raises, Returned(args) otherwise
ChainsArgs(underlier, expiry_date, skipAdjusted, chainType, strikePriceNear, noOfStrikes, optionCategory, priceType) ==
    LET args ==
          << <<"symbol=">> \o underlier >>
          \o (IF expiry_date # PyNone
              THEN << <<"expiryDay=">> \o Pad2(expiry_date.day)
                      \o <<"&", "expiryMonth=">> \o Pad2(expiry_date.month)
                      \o <<"&", "expiryYear=">> \o Pad4(expiry_date.year) >>
              ELSE <<>>)
          \o (IF strikePriceNear # PyNone
              THEN << <<"strikePriceNear=">> \o Format2f(strikePriceNear) >> ELSE <<>>)
          \o (IF chainType # PyNone
              THEN << <<"chainType=", Upper(chainType.s)>> >> ELSE <<>>)
          \o (IF optionCategory # PyNone
              THEN << <<"optionCategory=", Upper(optionCategory.s)>> >> ELSE <<>>)
          \o (IF priceType # PyNone
              THEN << <<"priceType=", Upper(priceType.s)>> >> ELSE <<>>)
          \o (IF skipAdjusted # PyNone
              THEN << <<"skipAdjusted=">> \o PyStrOf(skipAdjusted) >> ELSE <<>>)
    IN  IF noOfStrikes # PyNone THEN NoOfStrikesArg(noOfStrikes) ELSE Returned(args)

ChainsUrl(base, args) == base \o <<"optionchains?">> \o Join(<<"&">>, args)

\* the vendor's optionchains answers: k OptionPair elements, each a Put and a Call
PairsDoc(k) ==
    [i \in 1..k |-> [Put |-> [side |-> "Put", n |-> i], Call |-> [side |-> "Call", n |-> i]]]
ChainsResponses ==
    {[status |-> "conn_error"], [status |-> "http_error"]}
    \cup {[status |-> "ok", body |-> [fmt |-> "xml", wellformed |-> FALSE, pairs |-> <<>>]]}
    \cup {[status |-> "ok", body |-> [fmt |-> "xml", wellformed |-> TRUE, pairs |-> PairsDoc(k)]] :
            k \in 0..MaxPairs}

\* return xmltodict.parse(req.text)
ChainsParse(body) ==
    IF body.wellformed
    THEN Returned([parsed_by |-> "xmltodict", OptionPair |-> XmlChildren(body.pairs)])
    ELSE Raised("ExpatError")

----------------------------------------------------------------------------
\* get_option_expire_date

ExpireUrl(base, underlier) ==
    base \o <<"optionexpiredate?symbol=">> \o underlier \o <<"&expiryType=ALL">>

\* the ExpirationDate elements the vendor may send (the fields are text)
DateTexts ==
    { [year |-> <<"2", "0", "2", "4">>, month |-> <<"1">>, day |-> <<"1", "9">>],
      [year |-> <<"2", "0", "2", "4">>, month |-> <<"1", "2">>, day |-> <<"6">>],
      [year |-> <<"2", "0", "2", "5">>, month |-> <<"1">>, day |-> <<"1", "7">>] }
RECURSIVE SeqsUpTo(_, _)
SeqsUpTo(S, n) ==
    IF n = 0 THEN {<<>>}
    ELSE SeqsUpTo(S, n - 1) \cup {Append(q, x) : q \in {r \in SeqsUpTo(S, n - 1) : Len(r) = n - 1}, x \in S}
ExpireResponses ==
    {[status |-> "conn_error"], [status |-> "http_error"]}
    \cup {[status |-> "ok", body |-> [fmt |-> "xml", wellformed |-> FALSE, dates |-> <<>>]]}
    \cup {[status |-> "ok", body |-> [fmt |-> "xml", wellformed |-> TRUE, dates |-> ds]] :
            ds \in SeqsUpTo(DateTexts, MaxDates)}

\* dt.date(int(this_date["year"]), int(this_date["month"]), int(this_date["day"]))
ToDate(this_date) ==
    PyDate(ParseInt(this_date.year), ParseInt(this_date.month), ParseInt(this_date.day))

\* xmltodict.parse and the list comprehension over
\* q['OptionExpireDateResponse']['ExpirationDate']: iterating a single mapping
\* yields its keys, and indexing a key (a str) with "year" raises TypeError
ExpireParse(body) ==
    IF ~body.wellformed THEN Raised("ExpatError")
    ELSE LET c == XmlChildren(body.dates)
         IN  CASE c.ty = "missing" -> Raised("TypeError")
               [] c.ty = "dict" -> Raised("TypeError")
               [] OTHER -> Returned([i \in 1..Len(c.items) |-> ToDate(c.items[i])])

----------------------------------------------------------------------------
\* get_all_option_chains

\* chains = q['OptionChainResponse']['OptionPair'];
\* [i['Put'] for i in chains] + [i['Call'] for i in chains]
PutsThenCalls(q) ==
    LET chains == q.OptionPair
    IN  CASE chains.ty = "missing" -> Raised("KeyError")
          [] chains.ty = "dict" -> Raised("TypeError")
          [] OTHER -> Returned([i \in 1..Len(chains.items) |-> chains.items[i].Put]
                               \o [i \in 1..Len(chains.items) |-> chains.items[i].Call])

\* rtn[key] = value, rtn a dict held as a set of (key, value) entries
DictSet(d, key, value) ==
    {e \in d : e.key # key} \cup {[key |-> key, value |-> value]}
DictKeys(d) == {e.key : e \in d}
DictGet(d, key) == (CHOOSE e \in d : e.key = key).value

\* ChainStep with the transport's exception caught and the date skipped
ChainStep_SkipFailed(d, this_expiry_date, resp) ==
    IF TransportError(resp) # NoError THEN Returned(d)
    ELSE LET q == ChainsParse(resp.body)
         IN  IF q.kind = "raised" THEN q
             ELSE LET seq == PutsThenCalls(q.value)
                  IN  IF seq.kind = "raised" THEN seq
                      ELSE Returned(DictSet(d, this_expiry_date, seq.value))

\* one pass of the loop body for this_expiry_date, given the transport's answer
\* to the optionchains request: the new rtn, or the exception that leaves the loop
ChainStep(d, this_expiry_date, resp) ==
    IF TransportError(resp) # NoError THEN Raised(TransportError(resp))
    ELSE LET q == ChainsParse(resp.body)
         IN  IF q.kind = "raised" THEN q
             ELSE LET seq == PutsThenCalls(q.value)
                  IN  IF seq.kind = "raised" THEN seq
                      ELSE Returned(DictSet(d, this_expiry_date, seq.value))

----------------------------------------------------------------------------
\* Inputs the callers may pass

Sym(i) == <<"S">> \o Pad2(i)
SymbolsInputs ==
    {[ty |-> t, items |-> [i \in 1..n |-> Sym(i)]] :
        t \in {"list", "tuple"}, n \in (1..2) \cup ((QuoteLimit - 1)..MaxSymbolsLen)}
DetailFlagInputs ==
    {DetailFlags[i] : i \in 1..Len(DetailFlags)} \cup {PyStr("ALL"), PyStr("bogus")}
BoolInputs == {PyBool(TRUE), PyBool(FALSE), PyNone, PyInt(1), PyStr("yes")}
FormatInputs == {"xml", "XML", "json", "Json", "yaml"}
SearchInputs == {<<"apple">>, <<"goog">>}
UnderlierInputs == {<<"aapl">>, <<"GOOG">>}
ExpiryInputs == {PyNone, PyDate(2024, 1, 19), PyDate(2025, 12, 5)}
ChainTypeInputs == {ChainTypes[i] : i \in 1..Len(ChainTypes)} \cup {PyStr("PUT")}
OptionCategoryInputs ==
    {OptionCategories[i] : i \in 1..Len(OptionCategories)} \cup {PyStr("weekly")}
PriceTypeInputs == {PriceTypes[i] : i \in 1..Len(PriceTypes)} \cup {PyStr("atm")}
StrikeInputs == {PyNone, PyFloat(123400), PyFloat(50)}
NoOfStrikesInputs == {PyNone, PyInt(5), PyStr("5")}

----------------------------------------------------------------------------
\* The state machine: one call of one method of one ETradeMarket object

\* __init__(..., dev)
Init ==
    /\ base_url \in {<<"https://apisb.etrade.com/v1/market/">>,
                     <<"https://api.etrade.com/v1/market/">>}
    /\ pc = "idle"
    /\ call = [name |-> "none"]
    /\ requests = <<>>
    /\ received = <<>>
    /\ warnings = 0
    /\ outcome = Pending
    /\ expiration_dates = <<>>
    /\ idx = 0
    /\ rtn = {}

\* self.session.get(api_url) is entered
Get(api_url) == requests' = Append(requests, api_url)
\* the call ends: a value is returned or an exception leaves it
Finish(o) == outcome' = o /\ pc' = "done"
LastUrl == requests[Len(requests)]

LookUpProductCall ==
    /\ pc = "idle"
    /\ \E search_str \in SearchInputs, resp_format \in FormatInputs :
        /\ call' = [name |-> "look_up_product", search_str |-> search_str,
                    resp_format |-> resp_format]
        /\ Get(LookupUrl(base_url, search_str, resp_format))
        /\ pc' = "lookup_wait"
        /\ UNCHANGED <<base_url, received, warnings, outcome, expiration_dates, idx, rtn>>

LookUpProductReturn ==
    /\ pc = "lookup_wait"
    /\ \E resp \in PlainResponses(LastUrl) :
        /\ received' = Append(received, resp)
        /\ Finish(IF TransportError(resp) # NoError THEN Raised(TransportError(resp))
                  ELSE LookupParse(call.resp_format, resp.body))
        /\ UNCHANGED <<base_url, call, requests, warnings, expiration_dates, idx, rtn>>

GetQuoteCall ==
    /\ pc = "idle"
    /\ \E symbols \in SymbolsInputs, detail_flag \in DetailFlagInputs,
          require_earnings_date \in BoolInputs, skip_mini_options_check \in BoolInputs,
          resp_format \in FormatInputs :
        /\ call' = [name |-> "get_quote", symbols |-> symbols, detail_flag |-> detail_flag,
                    require_earnings_date |-> require_earnings_date,
                    skip_mini_options_check |-> skip_mini_options_check,
                    resp_format |-> resp_format]
        /\ IF QuoteAsserts(symbols, detail_flag, require_earnings_date,
                           skip_mini_options_check) # NoError
           THEN /\ Finish(Raised("AssertionError"))
                /\ UNCHANGED <<requests, warnings>>
           ELSE /\ warnings' = warnings + QuoteWarnings(symbols)
                /\ Get(QuoteUrl(base_url, symbols,
                                QuoteArgs(detail_flag, require_earnings_date,
                                          skip_mini_options_check),
                                resp_format))
                /\ pc' = "quote_wait"
                /\ UNCHANGED outcome
        /\ UNCHANGED <<base_url, received, expiration_dates, idx, rtn>>

GetQuoteReturn ==
    /\ pc = "quote_wait"
    /\ \E resp \in PlainResponses(LastUrl) :
        /\ received' = Append(received, resp)
        /\ Finish(IF TransportError(resp) # NoError THEN Raised(TransportError(resp))
                  ELSE QuoteParse(call.resp_format, resp.body))
        /\ UNCHANGED <<base_url, call, requests, warnings, expiration_dates, idx, rtn>>

GetOptionChainsCall ==
    /\ pc = "idle"
    /\ \E underlier \in UnderlierInputs, expiry_date \in ExpiryInputs,
          skipAdjusted \in BoolInputs, chainType \in ChainTypeInputs,
          strikePriceNear \in StrikeInputs, noOfStrikes \in NoOfStrikesInputs,
          optionCategory \in OptionCategoryInputs, priceType \in PriceTypeInputs :
        /\ call' = [name |-> "get_option_chains", underlier |-> underlier,
                    expiry_date |-> expiry_date, skipAdjusted |-> skipAdjusted,
                    chainType |-> chainType, strikePriceNear |-> strikePriceNear,
                    noOfStrikes |-> noOfStrikes, optionCategory |-> optionCategory,
                    priceType |-> priceType]
        /\ LET args == ChainsArgs(underlier, expiry_date, skipAdjusted, chainType,
                                  strikePriceNear, noOfStrikes, optionCategory, priceType)
           IN  IF ChainsAsserts(chainType, optionCategory, priceType, skipAdjusted) # NoError
               THEN Finish(Raised("AssertionError")) /\ UNCHANGED requests
               ELSE IF args.kind = "raised"
               THEN Finish(args) /\ UNCHANGED requests
               ELSE Get(ChainsUrl(base_url, args.value)) /\ pc' = "chains_wait"
                    /\ UNCHANGED outcome
        /\ UNCHANGED <<base_url, received, warnings, expiration_dates, idx, rtn>>

GetOptionChainsReturn ==
    /\ pc = "chains_wait"
    /\ \E resp \in ChainsResponses :
        /\ received' = Append(received, resp)
        /\ Finish(IF TransportError(resp) # NoError THEN Raised(TransportError(resp))
                  ELSE ChainsParse(resp.body))
        /\ UNCHANGED <<base_url, call, requests, warnings, expiration_dates, idx, rtn>>

GetOptionExpireDateCall ==
    /\ pc = "idle"
    /\ \E underlier \in UnderlierInputs :
        /\ call' = [name |-> "get_option_expire_date", underlier |-> underlier]
        /\ Get(ExpireUrl(base_url, underlier))
        /\ pc' = "expire_wait"
        /\ UNCHANGED <<base_url, received, warnings, outcome, expiration_dates, idx, rtn>>

GetOptionExpireDateReturn ==
    /\ pc = "expire_wait"
    /\ \E resp \in ExpireResponses :
        /\ received' = Append(received, resp)
        /\ Finish(IF TransportError(resp) # NoError THEN Raised(TransportError(resp))
                  ELSE ExpireParse(resp.body))
        /\ UNCHANGED <<base_url, call, requests, warnings, expiration_dates, idx, rtn>>

\* AllChainsRequest with chainType="callput" passed instead of left to its default
AllChainsRequest_FilterByType(base, underlier, this_expiry_date) ==
    ChainsUrl(base, ChainsArgs(underlier, this_expiry_date, PyNone, PyStr("callput"), PyNone,
                               PyNone, PyNone, PyNone).value)

\* self.get_option_chains(underlier, this_expiry_date), up to its session.get
AllChainsRequest(base, underlier, this_expiry_date) ==
    ChainsUrl(base, ChainsArgs(underlier, this_expiry_date, PyNone, PyNone, PyNone,
                               PyNone, PyNone, PyNone).value)

\* get_all_option_chains up to the session.get of get_option_expire_date
GetAllOptionChainsCall ==
    /\ pc = "idle"
    /\ \E underlier \in UnderlierInputs :
        /\ call' = [name |-> "get_all_option_chains", underlier |-> underlier]
        /\ Get(ExpireUrl(base_url, underlier))
        /\ pc' = "all_expire_wait"
        /\ UNCHANGED <<base_url, received, warnings, outcome, expiration_dates, idx, rtn>>

\* the optionexpiredate answer arrives: get_option_expire_date returns or
\* raises, rtn = dict(), and the loop runs to its first session.get
GetAllExpireReturn ==
    /\ pc = "all_expire_wait"
    /\ \E resp \in ExpireResponses :
        /\ received' = Append(received, resp)
        /\ LET dates == IF TransportError(resp) # NoError
                        THEN Raised(TransportError(resp))
                        ELSE ExpireParse(resp.body)
           IN  IF dates.kind = "raised"
               THEN Finish(dates) /\ UNCHANGED <<requests, expiration_dates, idx>>
               ELSE /\ expiration_dates' = dates.value
                    /\ IF Len(dates.value) = 0
                       THEN Finish(Returned({})) /\ UNCHANGED <<requests, idx>>
                       ELSE /\ idx' = 1
                            /\ Get(AllChainsRequest(base_url, call.underlier, dates.value[1]))
                            /\ pc' = "all_chain_wait"
                            /\ UNCHANGED outcome
        /\ rtn' = {}
        /\ UNCHANGED <<base_url, call, warnings>>

\* the optionchains answer for expiration_dates[idx] arrives: the loop body
\* finishes, and the loop runs to its next session.get or to "return rtn"
GetAllChainReturn ==
    /\ pc = "all_chain_wait"
    /\ \E resp \in ChainsResponses :
        /\ received' = Append(received, resp)
        /\ LET step == ChainStep(rtn, expiration_dates[idx], resp)
           IN  IF step.kind = "raised"
               THEN Finish(step) /\ UNCHANGED <<requests, idx, rtn>>
               ELSE /\ rtn' = step.value
                    /\ IF idx < Len(expiration_dates)
                       THEN /\ idx' = idx + 1
                            /\ Get(AllChainsRequest(base_url, call.underlier,
                                                    expiration_dates[idx + 1]))
                            /\ UNCHANGED <<pc, outcome>>
                       ELSE Finish(Returned(step.value)) /\ UNCHANGED <<requests, idx>>
        /\ UNCHANGED <<base_url, call, warnings, expiration_dates>>

Next ==
    \/ LookUpProductCall
    \/ LookUpProductReturn
    \/ GetQuoteCall
    \/ GetQuoteReturn
    \/ GetOptionChainsCall
    \/ GetOptionChainsReturn
    \/ GetOptionExpireDateCall
    \/ GetOptionExpireDateReturn
    \/ GetAllOptionChainsCall
    \/ GetAllExpireReturn
    \/ GetAllChainReturn

Spec == Init /\ [][Next]_vars

----------------------------------------------------------------------------
\* Reading a URL back: helpers of the properties below

\* position of the first chunk c in url, 0 when there is none
IndexOf(url, c) ==
    IF \E i \in 1..Len(url) : url[i] = c
    THEN CHOOSE i \in 1..Len(url) : url[i] = c /\ \A j \in 1..(i - 1) : url[j] # c
    ELSE 0
After(url, c) == SubSeq(url, IndexOf(url, c) + 1, Len(url))
Before(url, c) == IF IndexOf(url, c) = 0 THEN url ELSE SubSeq(url, 1, IndexOf(url, c) - 1)
\* the value that follows the key chunk, up to the next "&"
ArgValue(query, key) == Before(After(query, key), "&")
IsKey(c) == c \in {"symbol=", "expiryDay=", "expiryMonth=", "expiryYear=", "strikePriceNear=",
                   "chainType=", "optionCategory=", "priceType=", "skipAdjusted=",
                   "noOfStrikes=", "detailflag=", "requireEarningsDate=",
                   "skipMiniOptionsCheck="}
KeysOf(query) == SelectSeq(query, IsKey)
Count(url, c) == Cardinality({i \in 1..Len(url) : url[i] = c})

IsAllChains == call.name = "get_all_option_chains"
Ok(resp) == resp.status = "ok"
\* the ExpirationDate elements of the optionexpiredate answer, once it is in
VendorDates == received[1].body.dates
Distinct(seq) == \A i, j \in 1..Len(seq) : seq[i] = seq[j] => i = j

----------------------------------------------------------------------------
\* C1: when the optionexpiredate answer holds N >= 1 distinct dates and every
\* request of the call succeeds, a finished get_all_option_chains has issued
\* exactly 1 + N GET requests and has returned a mapping whose key set is
\* exactly those N dates.
C1_OneRequestPerDateAndOneKeyPerDate ==
    ( /\ IsAllChains /\ pc = "done"
      /\ \A k \in 1..Len(received) : Ok(received[k]) /\ received[k].body.wellformed
      /\ Len(VendorDates) >= 1 /\ Distinct(VendorDates) )
    => /\ outcome.kind = "returned"
       /\ Len(requests) = 1 + Len(VendorDates)
       /\ DictKeys(outcome.value) = {ToDate(VendorDates[i]) : i \in 1..Len(VendorDates)}

\* C2: a chain answer with k >= 1 OptionPairs for a date is stored under that
\* date as all Puts in the vendor's order followed by all Calls in the
\* vendor's order, 2k entries.
C2_PutsThenCallsStored ==
    (IsAllChains /\ Len(received) >= 2 /\ Distinct(VendorDates)) =>
        \A i \in 2..Len(received) :
            ( /\ Ok(received[i]) /\ received[i].body.wellformed
              /\ Len(received[i].body.pairs) >= 1 )
            => LET pairs == received[i].body.pairs
                   date == expiration_dates[i - 1]
               IN  /\ date \in DictKeys(rtn)
                   /\ DictGet(rtn, date) = [n \in 1..(2 * Len(pairs)) |->
                         IF n <= Len(pairs) THEN pairs[n].Put
                         ELSE pairs[n - Len(pairs)].Call]

\* C3: when the k-th request of a get_all_option_chains call fails in the
\* transport, the call is over with that same error raised, no request was
\* issued after the k-th, and no mapping (partial or empty) is returned.
C3_AbortOnFirstFailure ==
    IsAllChains =>
        \A k \in 1..Len(received) :
            ~Ok(received[k]) =>
                /\ pc = "done"
                /\ outcome = Raised(TransportError(received[k]))
                /\ Len(requests) = k
                /\ Len(received) = k

\* a chain fetch failed after an earlier date had already been stored
C3_Witness ==
    /\ IsAllChains
    /\ Len(received) = 3
    /\ received[3].status = "http_error"
    /\ rtn # {}
    /\ outcome = Raised("HTTPError")

\* C10: the optionexpiredate request is the first request; there is never more
\* than one request whose answer is outstanding, and request i + 1 exists only
\* once answers 1..i are in and parsed; the i-th optionchains request carries
\* the underlier and the i-th date of the optionexpiredate answer (two-digit
\* day and month, four-digit year) and no other argument.
C10_SequentialRequestsInVendorOrder ==
    IsAllChains =>
        /\ Len(requests) >= 1
        /\ requests[1] = base_url \o <<"optionexpiredate?symbol=">> \o call.underlier
                                  \o <<"&expiryType=ALL">>
        /\ Len(received) <= Len(requests) /\ Len(requests) <= Len(received) + 1
        /\ \A i \in 2..Len(requests) :
            LET query == After(requests[i], "optionchains?")
                date == VendorDates[i - 1]
            IN  /\ \A k \in 1..(i - 1) : Ok(received[k]) /\ received[k].body.wellformed
                /\ i - 1 <= Len(VendorDates)
                /\ Before(requests[i], "optionchains?") = base_url
                /\ KeysOf(query) = <<"symbol=", "expiryDay=", "expiryMonth=", "expiryYear=">>
                /\ ArgValue(query, "symbol=") = call.underlier
                /\ Len(ArgValue(query, "expiryDay=")) = 2
                /\ Len(ArgValue(query, "expiryMonth=")) = 2
                /\ Len(ArgValue(query, "expiryYear=")) = 4
                /\ ParseInt(ArgValue(query, "expiryDay=")) = ParseInt(date.day)
                /\ ParseInt(ArgValue(query, "expiryMonth=")) = ParseInt(date.month)
                /\ ParseInt(ArgValue(query, "expiryYear=")) = ParseInt(date.year)

\* the third optionchains request of a call is outstanding
C10_Witness ==
    /\ IsAllChains
    /\ Len(requests) = 4
    /\ Len(received) = 3
    /\ pc = "all_chain_wait"

----------------------------------------------------------------------------
\* The legal values of the enumerated parameters, as the specification types
\* them (a flag is true, false or absent; an int is not a flag)

LegalDetailFlags == {PyStr("fundamental"), PyStr("intraday"), PyStr("options"),
                     PyStr("week_52"), PyStr("all"), PyStr("mf_detail"), PyNone}
LegalFlags == {PyBool(TRUE), PyBool(FALSE), PyNone}
LegalChainTypes == {PyStr("put"), PyStr("call"), PyStr("callput"), PyNone}
LegalOptionCategories == {PyStr("standard"), PyStr("all"), PyStr("mini"), PyNone}
LegalPriceTypes == {PyStr("atmn"), PyStr("all"), PyNone}
XmlSpellings == {"xml", "XML"}
JsonSpellings == {"json", "Json"}

IsQuote == call.name = "get_quote"
IsLookup == call.name = "look_up_product"
IsChains == call.name = "get_option_chains"
QuoteEnumsLegal ==
    /\ call.detail_flag \in LegalDetailFlags
    /\ call.require_earnings_date \in LegalFlags
    /\ call.skip_mini_options_check \in LegalFlags
ChainsEnumsLegal ==
    /\ call.chainType \in LegalChainTypes
    /\ call.optionCategory \in LegalOptionCategories
    /\ call.priceType \in LegalPriceTypes
    /\ call.skipAdjusted \in LegalFlags
\* the query part of a lookup or quote URL
QueryOf(url) == IF IndexOf(url, "?") = 0 THEN <<>> ELSE After(url, "?")

\* C4: get_quote and get_option_chains end in a validation error, with no GET
\* issued, whenever an enumerated parameter is outside its legal set, and raise
\* no validation error when every enumerated parameter is inside it.
C4_EnumeratedParametersValidated ==
    /\ IsQuote =>
        /\ ~QuoteEnumsLegal => (outcome = Raised("AssertionError") /\ requests = <<>>)
        /\ QuoteEnumsLegal => outcome # Raised("AssertionError")
    /\ IsChains =>
        /\ ~ChainsEnumsLegal => (outcome = Raised("AssertionError") /\ requests = <<>>)
        /\ ChainsEnumsLegal => outcome # Raised("AssertionError")

\* C5: look_up_product and get_quote given a resp_format that is neither xml
\* nor json (in any letter case) fail with a validation error before any GET.
C5_UnknownFormatRejected ==
    ((IsQuote \/ IsLookup) /\ call.resp_format \notin (XmlSpellings \cup JsonSpellings))
    => (outcome = Raised("AssertionError") /\ requests = <<>>)

\* C6: get_quote given N >= 1 symbols (its other parameters legal) issues its
\* request; the URL lists the first 25 symbols in order and one warning is
\* emitted when N > 25; it lists all N and no warning is emitted when N <= 25.
C6_FirstTwentyFiveSymbols ==
    (IsQuote /\ QuoteEnumsLegal /\ Len(call.symbols.items) >= 1) =>
        LET items == call.symbols.items
            n == Len(items)
            shown == IF n > 25 THEN 25 ELSE n
        IN  /\ Len(requests) = 1
            /\ Before(Before(After(requests[1], "quote/"), "?"), ".json")
                 = Join(<<",">>, [i \in 1..shown |-> items[i]])
            /\ warnings = (IF n > 25 THEN 1 ELSE 0)

\* C7: get_option_chains given legal parameters issues its request; the query
\* holds symbol first and then, each exactly when its parameter is supplied,
\* expiryDay/expiryMonth/expiryYear, strikePriceNear, chainType,
\* optionCategory, priceType, skipAdjusted, noOfStrikes in this order, and an
\* integer no_of_strikes N is serialized as noOfStrikes=N.
C7_ChainsQueryOrder ==
    (IsChains /\ ChainsEnumsLegal) =>
        /\ Len(requests) = 1
        /\ LET query == After(requests[1], "optionchains?")
           IN  /\ KeysOf(query) =
                    <<"symbol=">>
                    \o (IF call.expiry_date # PyNone
                        THEN <<"expiryDay=", "expiryMonth=", "expiryYear=">> ELSE <<>>)
                    \o (IF call.strikePriceNear # PyNone THEN <<"strikePriceNear=">> ELSE <<>>)
                    \o (IF call.chainType # PyNone THEN <<"chainType=">> ELSE <<>>)
                    \o (IF call.optionCategory # PyNone THEN <<"optionCategory=">> ELSE <<>>)
                    \o (IF call.priceType # PyNone THEN <<"priceType=">> ELSE <<>>)
                    \o (IF call.skipAdjusted # PyNone THEN <<"skipAdjusted=">> ELSE <<>>)
                    \o (IF call.noOfStrikes # PyNone THEN <<"noOfStrikes=">> ELSE <<>>)
               /\ call.noOfStrikes.ty = "int" =>
                    ArgValue(query, "noOfStrikes=") = IntStr(call.noOfStrikes.n)

\* C8: in a get_quote request with legal parameters the query arguments are
\* detailflag, requireEarningsDate, skipMiniOptionsCheck in this order;
\* detailflag is there exactly when detail_flag is present and carries its
\* upper-cased name; requireEarningsDate is there exactly when
\* require_earnings_date is true; skipMiniOptionsCheck is there exactly when
\* skip_mini_options_check is present; there is a "?" exactly when there is an
\* argument.
UpperCased ==
    [fundamental |-> "FUNDAMENTAL", intraday |-> "INTRADAY", options |-> "OPTIONS",
     week_52 |-> "WEEK_52", all |-> "ALL", mf_detail |-> "MF_DETAIL"]
C8_QuoteQueryArguments ==
    (IsQuote /\ QuoteEnumsLegal /\ Len(requests) >= 1) =>
        LET url == requests[1]
            query == QueryOf(url)
            keys == (IF call.detail_flag # PyNone THEN <<"detailflag=">> ELSE <<>>)
                    \o (IF call.require_earnings_date = PyBool(TRUE)
                        THEN <<"requireEarningsDate=">> ELSE <<>>)
                    \o (IF call.skip_mini_options_check # PyNone
                        THEN <<"skipMiniOptionsCheck=">> ELSE <<>>)
        IN  /\ KeysOf(query) = keys
            /\ Count(url, "&") = (IF keys = <<>> THEN 0 ELSE Len(keys) - 1)
            /\ Count(url, "?") = (IF keys = <<>> THEN 0 ELSE 1)
            /\ call.detail_flag # PyNone =>
                 ArgValue(query, "detailflag=") = <<UpperCased[call.detail_flag.s]>>

\* all three arguments are in the query of an issued request
C8_Witness ==
    /\ IsQuote /\ Len(requests) = 1
    /\ call.detail_flag = PyStr("week_52")
    /\ call.require_earnings_date = PyBool(TRUE)
    /\ call.skip_mini_options_check = PyBool(FALSE)
    /\ Len(KeysOf(QueryOf(requests[1]))) = 3

\* C9: for look_up_product and get_quote with a legal resp_format, the path of
\* the request URL (what precedes "?") ends with ".json", once, for json and
\* holds no ".json" for xml, and the body is decoded by the normalizer of the
\* same format.
C9_SuffixAndDecoderFollowFormat ==
    ((IsQuote \/ IsLookup) /\ Len(requests) >= 1
      /\ call.resp_format \in (XmlSpellings \cup JsonSpellings)) =>
        LET url == requests[1]
            path == Before(url, "?")
            json == call.resp_format \in JsonSpellings
        IN  /\ Count(url, ".json") = (IF json THEN 1 ELSE 0)
            /\ json => path[Len(path)] = ".json"
            /\ outcome.kind = "returned" =>
                 outcome.value.parsed_by = (IF json THEN "json" ELSE "xmltodict")
            /\ outcome.kind = "raised" =>
                 outcome.error # (IF json THEN "ExpatError" ELSE "JSONDecodeError")

\* a json quote with a query part came back and was decoded
C9_Witness ==
    /\ IsQuote /\ call.resp_format = "Json" /\ Len(requests) = 1
    /\ IndexOf(requests[1], "?") # 0
    /\ outcome.kind = "returned"

====
